---- MODULE Spec2Model ----
(***************************************************************************)
(* bladvak: the application shell (src/app.rs), its settings overlay       *)
(* (src/settings.rs), the error manager (src/errors.rs) and the file       *)
(* handler (src/file_handler.rs), as one state machine.                    *)
(*                                                                         *)
(* One frame is one call of Bladvak::update; pc names the call of update   *)
(* that runs next, in the order update makes them.  The host application   *)
(* (trait BladvakApp), its panels (trait BladvakPanel) and the user are    *)
(* the environment: what they may do in one step is drawn from the sets    *)
(* of an environment record E (see EnvLayout, EnvErrors, EnvFiles).        *)
(***************************************************************************)
EXTENDS Integers, Sequences, FiniteSets, TLC

VARIABLES
  pc,             \* "new": before try_new_with_args; else the next step of update
  storage,        \* eframe storage under APP_KEY: None or the serialized Bladvak
  app,            \* Bladvak.app, the host application's own state
  panel_list,     \* Bladvak.panel_list
  internal,       \* Bladvak.internal: [settings, panel_state]
  error_manager,  \* Bladvak.error_manager: [errors, is_open, was_open]
  file_handler,   \* Bladvak.file_handler: [dropped_files, file_upload]
  input,          \* egui RawInput.dropped_files of the current frame
  threads,        \* the "slow" threads handle_file_open spawned that have not returned
  obs,            \* what the steps of this frame returned and showed (observation)
  hist            \* what earlier steps did with the queue and the drop (history)

vars == <<pc, storage, app, panel_list, internal, error_manager, file_handler, input, threads, obs, hist>>

----------------------------------------------------------------------------
(* Rust's Option and Result.                                               *)

None == [tag |-> "None"]
Some(x) == [tag |-> "Some", val |-> x]
Ok(x) == [tag |-> "Ok", val |-> x]
Err(e) == [tag |-> "Err", err |-> e]

Range(s) == {s[i] : i \in DOMAIN s}

----------------------------------------------------------------------------
(* Bounds of the model.                                                    *)

\* the longest error queue the environment is allowed to build
MaxErrors == 2
\* the largest number of files in one drop
MaxDrop == 2
\* the largest number of file dialogs open at once
MaxThreads == 2

----------------------------------------------------------------------------
(* errors.rs                                                               *)

AppError_new(m) == [message |-> m, error_type |-> "Normal"]
AppError_new_fake(m) == [message |-> m, error_type |-> "Fake"]
is_fake(e) == e.error_type = "Fake"

ErrorManager_default == [errors |-> <<>>, is_open |-> FALSE, was_open |-> FALSE]

\* add_error without the is_fake test
add_error_keeps_fake(em, e) == [em EXCEPT !.errors = Append(@, e)]

add_error(em, e) ==
  IF is_fake(e) THEN em ELSE [em EXCEPT !.errors = Append(@, e)]

\* the add_error calls one step's hooks make, in order
RECURSIVE add_errors(_, _)
add_errors(em, es) ==
  IF es = <<>> THEN em ELSE add_errors(add_error(em, Head(es)), Tail(es))

----------------------------------------------------------------------------
(* app.rs: panels and the persisted state                                  *)

AsWindows == "AsWindows"
AsSideBar == "AsSideBar"
Hidden == "None"
PanelOpen == {AsWindows, AsSideBar, Hidden}

PanelState_default == [open |-> AsWindows]

min_width_sidebar == 200

General == [tag |-> "General"]
Panel == [tag |-> "Panel"]
String(n) == [tag |-> "String", name |-> n]

Settings_default ==
  [show_inspection |-> FALSE, open |-> FALSE, min_width_sidebar |-> min_width_sidebar,
   right_panel |-> TRUE, selected_setting |-> General]

FileHandler_default == [dropped_files |-> <<>>, file_upload |-> None]

Names(pl) == {pl[i].name : i \in DOMAIN pl}

\* what serde writes of a Bladvak: the fields without #[serde(skip)]
Serialize(a, int) == [app |-> a, internal |-> int]

----------------------------------------------------------------------------
(* file_handler.rs (the native build: cfg(not(target_arch = "wasm32")))    *)

\* the files std::fs::read can read, with their content
Disk == [a |-> "data_a", b |-> "data_b", p |-> "data_p"]

File(path) == [data |-> Disk[path], path |-> path]

\* an egui::DroppedFile: its path, if the platform gave one
DroppedFile(path) == [path |-> path]

NotSelected == [tag |-> "NotSelected"]
UploadedOrSelected == [tag |-> "UploadedOrSelected"]
NoUpload == [tag |-> "NoUpload"]
Ready(f) == [tag |-> "Ready", file |-> f]

\* std::fs::read
read(path) ==
  IF path \in DOMAIN Disk THEN Ok(Disk[path])
  ELSE Err(AppError_new("No such file or directory"))

\* a Promise: ready() is None until the spawned closure has returned
Promise(r) == [ready |-> r]

\* the closure handle_file_open spawns; pick is what rfd::FileDialog::pick_file
\* returns: None (cancelled) or Some([path, utf8])
slow(pick) ==
  IF pick.tag = "Some"
  THEN IF pick.val.utf8
       THEN LET buf == read(pick.val.path)
            IN IF buf.tag = "Ok" THEN Ok(Ready(File(pick.val.path))) ELSE Err(buf.err)
       ELSE Err(AppError_new("Invalid file path"))
  ELSE Ok(NotSelected)

\* handle_file_open keeping a request that is already in the slot
handle_file_open_keeps(fh) ==
  IF fh.file_upload.tag = "Some" THEN fh
  ELSE [fh EXCEPT !.file_upload = Some(Promise(None))]

handle_file_open(fh) == [fh EXCEPT !.file_upload = Some(Promise(None))]

\* Promise::spawn_thread: one more thread runs the closure; a Promise that is
\* replaced or dropped does not stop its thread
spawn_thread(t) == t + 1

\* reset leaving the request in its slot
reset_nothing(fh) == fh

\* reset dropping the pending files too
reset_all(fh) == [dropped_files |-> <<>>, file_upload |-> None]

reset(fh) == [fh EXCEPT !.file_upload = None]

\* handle_file_upload with no request treated as a failure
handle_file_upload_strict(fh) ==
  IF fh.file_upload.tag = "Some"
  THEN LET result == fh.file_upload.val
       IN IF result.ready.tag = "Some"
          THEN result.ready.val
          ELSE Ok(UploadedOrSelected)
  ELSE Err(AppError_new("No file upload"))

handle_file_upload(fh) ==
  IF fh.file_upload.tag = "Some"
  THEN LET result == fh.file_upload.val
       IN IF result.ready.tag = "Some"
          THEN result.ready.val
          ELSE Ok(UploadedOrSelected)
  ELSE Ok(NoUpload)

\* <<the result, the handler afterwards>>
handle_file_dropped(fh) ==
  IF fh.dropped_files = <<>>
  THEN <<Ok(None), fh>>
  ELSE LET file == Head(fh.dropped_files)
           fh2 == [fh EXCEPT !.dropped_files = Tail(@)]
       IN IF file.path.tag = "Some"
          THEN LET r == read(file.path.val)
               IN IF r.tag = "Ok"
                  THEN <<Ok(Some(File(file.path.val))), fh2>>
                  ELSE <<Err(r.err), fh2>>
          ELSE <<Ok(None), fh2>>

\* ingest adding the drop of this frame to the pending list
ingest_appends(fh, raw) == [fh EXCEPT !.dropped_files = @ \o raw]

\* ctx.input(|i| ...): a non-empty drop of this frame replaces the pending list
ingest(fh, raw) ==
  IF raw # <<>> THEN [fh EXCEPT !.dropped_files = raw] ELSE fh

\* handle_files reporting a cancelled dialog as a failure
handle_files_cancel_fails(fh, raw) ==
  LET fh1 == ingest(fh, raw)
      up == handle_file_upload(fh1)
  IN IF up.tag = "Ok"
     THEN CASE up.val.tag = "NotSelected" ->
                 <<Err(AppError_new("No file selected")), reset(fh1)>>
            [] up.val.tag = "UploadedOrSelected" -> <<Ok(None), fh1>>
            [] up.val.tag = "Ready" -> <<Ok(Some(up.val.file)), reset(fh1)>>
            [] up.val.tag = "NoUpload" -> handle_file_dropped(reset(fh1))
     ELSE <<Err(up.err), reset(fh1)>>

\* handle_files returning on a cancelled dialog
handle_files_cancel_returns(fh, raw) ==
  LET fh1 == ingest(fh, raw)
      up == handle_file_upload(fh1)
  IN IF up.tag = "Ok"
     THEN CASE up.val.tag = "NotSelected" -> <<Ok(None), reset(fh1)>>
            [] up.val.tag = "UploadedOrSelected" -> <<Ok(None), fh1>>
            [] up.val.tag = "Ready" -> <<Ok(Some(up.val.file)), reset(fh1)>>
            [] up.val.tag = "NoUpload" -> handle_file_dropped(reset(fh1))
     ELSE <<Err(up.err), reset(fh1)>>

\* handle_files going on to the dropped files while the dialog is unresolved
handle_files_no_wait(fh, raw) ==
  LET fh1 == ingest(fh, raw)
      up == handle_file_upload(fh1)
  IN IF up.tag = "Ok"
     THEN CASE up.val.tag = "NotSelected" -> handle_file_dropped(reset(fh1))
            [] up.val.tag = "UploadedOrSelected" -> handle_file_dropped(fh1)
            [] up.val.tag = "Ready" -> <<Ok(Some(up.val.file)), reset(fh1)>>
            [] up.val.tag = "NoUpload" -> handle_file_dropped(reset(fh1))
     ELSE <<Err(up.err), reset(fh1)>>

\* <<the result, the handler afterwards>>
handle_files(fh, raw) ==
  LET fh1 == ingest(fh, raw)
      up == handle_file_upload(fh1)
  IN IF up.tag = "Ok"
     THEN CASE up.val.tag = "NotSelected" -> handle_file_dropped(reset(fh1))
            [] up.val.tag = "UploadedOrSelected" -> <<Ok(None), fh1>>
            [] up.val.tag = "Ready" -> <<Ok(Some(up.val.file)), reset(fh1)>>
            [] up.val.tag = "NoUpload" -> handle_file_dropped(reset(fh1))
     ELSE <<Err(up.err), reset(fh1)>>

----------------------------------------------------------------------------
(* app.rs: construction and the regions of a frame                         *)

\* M::default(), the host application's state on a first start
M_default == [is_side_panel |-> TRUE]

\* get_saved_app_state with selected_setting a skipped field
get_saved_app_state_skips(st) ==
  IF st.tag = "Some"
  THEN Some([st.val EXCEPT !.internal.settings.selected_setting = General])
  ELSE st

\* eframe::get_value::<Bladvak<M>>: the skipped fields come back as Default
get_saved_app_state(st) == st

\* bladvak_internal without the comparison of the two counts
bladvak_internal_no_count(saved, pl) ==
  IF saved.tag = "Some"
  THEN saved.val
  ELSE [settings |-> Settings_default,
        panel_state |-> [n \in Names(pl) |-> PanelState_default]]

\* bladvak_internal keeping the saved settings when it rebuilds the layout map
bladvak_internal_keeps_settings(saved, pl) ==
  IF saved.tag = "Some"
  THEN IF Cardinality(DOMAIN saved.val.panel_state) = Len(pl)
       THEN saved.val
       ELSE [settings |-> saved.val.settings,
             panel_state |-> [n \in Names(pl) |-> PanelState_default]]
  ELSE [settings |-> Settings_default,
        panel_state |-> [n \in Names(pl) |-> PanelState_default]]

\* bladvak_internal reusing the layout map and not the settings
bladvak_internal_default_settings(saved, pl) ==
  IF saved.tag = "Some" /\ Cardinality(DOMAIN saved.val.panel_state) = Len(pl)
  THEN [settings |-> Settings_default, panel_state |-> saved.val.panel_state]
  ELSE [settings |-> Settings_default,
        panel_state |-> [n \in Names(pl) |-> PanelState_default]]

\* lines 152-167 of try_new_with_args; saved is saved_state.1
bladvak_internal(saved, pl) ==
  IF saved.tag = "Some" /\ Cardinality(DOMAIN saved.val.panel_state) = Len(pl)
  THEN saved.val
  ELSE [settings |-> Settings_default,
        panel_state |-> [n \in Names(pl) |-> PanelState_default]]

\* the panels central_panel shows a window for
windows(pl, ps) ==
  {pl[i].name : i \in {j \in DOMAIN pl :
      pl[j].has_ui /\ pl[j].name \in DOMAIN ps /\ ps[pl[j].name].open = AsWindows}}

\* window_closed hiding the panel
window_closed_hides(state) == [state EXCEPT !.open = Hidden]

\* a panel window whose close button was pressed
window_closed(state) == [state EXCEPT !.open = AsSideBar]

\* central_panel taking the entry of a closed window out of the layout map
central_panel_state_drops(pl, ps, closed) ==
  [n \in DOMAIN ps \ (windows(pl, ps) \cap closed) |-> ps[n]]

\* the loop of central_panel; closed: the windows whose close button is pressed
central_panel_state(pl, ps, closed) ==
  [n \in DOMAIN ps |->
     IF n \in windows(pl, ps) /\ n \in closed THEN window_closed(ps[n]) ELSE ps[n]]

is_panels_in_sidebar(ps) == \E n \in DOMAIN ps : ps[n].open = AsSideBar

RECURSIVE filter_sidebar(_, _)
filter_sidebar(pl, ps) ==
  IF pl = <<>> THEN <<>>
  ELSE LET q == Head(pl)
           rest == filter_sidebar(Tail(pl), ps)
       IN IF q.has_ui /\ q.name \in DOMAIN ps /\ ps[q.name].open = AsSideBar
          THEN <<q.name>> \o rest ELSE rest

\* side_region shown as soon as the host has a side region or a panel is placed
\* in the sidebar
side_region_either(a, pl, ps) ==
  IF a.is_side_panel \/ is_panels_in_sidebar(ps)
  THEN Some(filter_sidebar(pl, ps))
  ELSE None

\* update and side_panel: the panels whose ui the side region shows, or None
\* when no side region is shown
side_region(a, pl, ps) ==
  IF a.is_side_panel /\ is_panels_in_sidebar(ps)
  THEN Some(filter_sidebar(pl, ps))
  ELSE None

----------------------------------------------------------------------------
(* settings.rs                                                             *)

\* show_error_manager without errors.clear()
show_error_manager_result_keeps(em, close) ==
  LET em1 == IF ~em.was_open /\ em.errors # <<>> THEN [em EXCEPT !.is_open = TRUE] ELSE em
      shown == IF em1.is_open THEN Some(em1.errors) ELSE None
      em2 == IF em1.is_open /\ close THEN [em1 EXCEPT !.is_open = FALSE] ELSE em1
  IN <<[em2 EXCEPT !.was_open = em2.is_open], shown>>

\* <<the manager afterwards, what the window showed (None: no window)>>;
\* close: the user presses the window's close button
show_error_manager_result(em, close) ==
  LET em1 == IF ~em.was_open /\ em.errors # <<>> THEN [em EXCEPT !.is_open = TRUE] ELSE em
      shown == IF em1.is_open THEN Some(em1.errors) ELSE None
      em2 == IF em1.is_open /\ close THEN [em1 EXCEPT !.is_open = FALSE] ELSE em1
      em3 == IF ~em2.is_open THEN [em2 EXCEPT !.errors = <<>>] ELSE em2
  IN <<[em3 EXCEPT !.was_open = em3.is_open], shown>>

\* panel_entries without the has_settings test
RECURSIVE panel_entries_all(_)
panel_entries_all(pl) ==
  IF pl = <<>> THEN <<>>
  ELSE <<String(Head(pl).name)>> \o panel_entries_all(Tail(pl))

RECURSIVE panel_entries(_)
panel_entries(pl) ==
  IF pl = <<>> THEN <<>>
  ELSE IF Head(pl).has_settings
       THEN <<String(Head(pl).name)>> \o panel_entries(Tail(pl))
       ELSE panel_entries(Tail(pl))

\* the navigation list of the settings modal
nav_list(pl) == <<General, Panel>> \o panel_entries(pl)

\* the placements show_panel_setting offers for a panel
offered(is_side_panel) ==
  IF is_side_panel THEN {AsSideBar, AsWindows, Hidden} ELSE {AsWindows, Hidden}

\* show_panel_setting leaving a panel in the sidebar when the host has no side region
show_panel_setting_no_coerce(pl, ps, is_side_panel, pick) ==
  [n \in DOMAIN ps |->
     IF (\E i \in DOMAIN pl : pl[i].has_ui /\ pl[i].name = n)
        /\ pick.tag = "Some" /\ pick.val.name = n
     THEN [ps[n] EXCEPT !.open = pick.val.open]
     ELSE ps[n]]

\* show_panel_setting; pick: None or Some([name, open]), the value the user selects
show_panel_setting(pl, ps, is_side_panel, pick) ==
  [n \in DOMAIN ps |->
     IF \E i \in DOMAIN pl : pl[i].has_ui /\ pl[i].name = n
     THEN LET coerced == IF ~is_side_panel /\ ps[n].open = AsSideBar
                         THEN [ps[n] EXCEPT !.open = Hidden] ELSE ps[n]
          IN IF pick.tag = "Some" /\ pick.val.name = n
             THEN [coerced EXCEPT !.open = pick.val.open]
             ELSE coerced
     ELSE ps[n]]

----------------------------------------------------------------------------
(* What the user does in the settings modal in one frame: one widget.      *)

Ui(kind, arg) == [kind |-> kind, arg |-> arg]
UiNone == Ui("none", None)
UiCloseInspection == Ui("close_inspection", None)
UiCloseModal == Ui("close_modal", None)
UiNav(target) == Ui("nav", target)
UiStorage == Ui("storage", None)
UiResetErrors == Ui("reset_errors", None)
UiErrorPanel == Ui("error_panel", None)
UiInspection == Ui("inspection", None)
UiPlace(n, open) == Ui("place", [name |-> n, open |-> open])

\* the widget u is on screen
ui_on_screen(u, a, pl, int) ==
  LET s == int.settings
  IN CASE u.kind = "none" -> TRUE
       [] u.kind = "close_inspection" -> s.show_inspection
       [] u.kind = "close_modal" -> s.open
       [] u.kind = "nav" -> s.open /\ u.arg \in Range(nav_list(pl))
       [] u.kind \in {"storage", "reset_errors", "error_panel", "inspection"} ->
            s.open /\ s.selected_setting = General
       [] u.kind = "place" ->
            /\ s.open /\ s.selected_setting = Panel
            /\ u.arg.name \in DOMAIN int.panel_state
            /\ \E i \in DOMAIN pl : pl[i].has_ui /\ pl[i].name = u.arg.name
            /\ u.arg.open \in offered(a.is_side_panel)

\* show_setting going back to the General section when the modal closes
show_setting_settings_resets(s, u) ==
  [s EXCEPT
     !.show_inspection = CASE u.kind = "close_inspection" -> FALSE
                           [] u.kind = "inspection" -> ~@
                           [] OTHER -> @,
     !.selected_setting = CASE u.kind = "nav" -> u.arg
                            [] u.kind = "close_modal" -> General
                            [] OTHER -> @,
     !.open = IF u.kind = "close_modal" THEN FALSE ELSE @]

\* show_setting, the settings it leaves
show_setting_settings(s, u) ==
  [s EXCEPT
     !.show_inspection = CASE u.kind = "close_inspection" -> FALSE
                           [] u.kind = "inspection" -> ~@
                           [] OTHER -> @,
     !.selected_setting = IF u.kind = "nav" THEN u.arg ELSE @,
     !.open = IF u.kind = "close_modal" THEN FALSE ELSE @]

\* show_setting, the layout map it leaves (the Panels section is on screen
\* when the modal is open with Panel selected)
show_setting_panel_state(a, pl, int, u) ==
  IF int.settings.open /\ int.settings.selected_setting = Panel
  THEN show_panel_setting(pl, int.panel_state, a.is_side_panel,
                          IF u.kind = "place" THEN Some(u.arg) ELSE None)
  ELSE int.panel_state

\* show_general_setting, the error manager it leaves
show_general_setting(em, u) ==
  CASE u.kind = "reset_errors" -> ErrorManager_default
    [] u.kind = "error_panel" -> [em EXCEPT !.is_open = ~@]
    [] OTHER -> em

\* the panels show_panel_setting finds in the sidebar while the host has no
\* side region
coerced_panels(a, pl, int) ==
  IF int.settings.open /\ int.settings.selected_setting = Panel /\ ~a.is_side_panel
  THEN {n \in DOMAIN int.panel_state :
          /\ \E i \in DOMAIN pl : pl[i].has_ui /\ pl[i].name = n
          /\ int.panel_state[n].open = AsSideBar}
  ELSE {}

\* a panel's ui_settings is called: the modal is open on that panel's section
ui_settings_called(pl, int) ==
  /\ int.settings.open
  /\ int.settings.selected_setting.tag = "String"
  /\ int.settings.selected_setting.name \in Names(pl)

---------------------------------------------------------------------------------------------------------------------------------------------------
(* The state machine.                                                      *)

\* obs: what the steps of the current frame took in, returned and showed
obs0 ==
  [fresh |-> FALSE,               \* try_new_with_args has just returned
   added |-> <<>>,                \* the errors the last step handed to add_error
   side |-> None,                 \* the panels side_panel showed
   closed |-> {},                 \* the panel windows closed in central_panel
   before |-> FileHandler_default,\* the file handler when handle_files was called
   ret |-> Ok(None),              \* what handle_files returned
   from |-> "none",               \* where its file came from
   handled |-> None,              \* the file given to the host's handle_file
   answer |-> None,               \* what the host's handle_file returned, if called
   repaint |-> FALSE,             \* request_repaint was called
   shown |-> None,                \* the records the error window listed
   nav |-> None,                  \* the navigation list the settings modal showed
   ui |-> UiNone,                 \* the widget the user used in show_setting
   coerced |-> {},                \* the panels show_panel_setting took out of the sidebar
   lost |-> FALSE]                \* the error step emptied a queue holding unseen records

\* hist: what earlier steps did with the queue and with the pending drop
\*   unseen: the queue holds a record the error window has never listed
\*   rest:  the pending list is what a poll left of a drop after taking its first file
\*   scene: "held": the last poll found an unresolved dialog and a pending drop;
\*          "dialog": after "held", the last poll found the dialog Ready;
\*          "drop": after "dialog", the last poll found no dialog and no new drop
\*   left:  the session that ended held records, a dialog request and a pending drop
\*   failed: the last poll returned the error of a failed read, of the "dialog"
\*          or of a "drop"; "none" otherwise
hist0 == [unseen |-> FALSE, rest |-> FALSE, scene |-> "none", left |-> FALSE,
          failed |-> "none"]

\* unseen after a step that takes the manager from em to em2 without showing it
Unseen(h, em, em2) ==
  em2.errors # <<>> /\ (h.unseen \/ Len(em2.errors) > Len(em.errors))

no_internal == [settings |-> Settings_default, panel_state |-> [n \in {} |-> PanelState_default]]

Init ==
  /\ pc = "new"
  /\ storage = None
  /\ app = M_default
  /\ panel_list = <<>>
  /\ internal = no_internal
  /\ error_manager = ErrorManager_default
  /\ file_handler = FileHandler_default
  /\ input = <<>>
  /\ threads = 0
  /\ obs = obs0
  /\ hist = hist0

\* the queue stays within the bound of the model
Bounded(em) == Len(em.errors) <= MaxErrors

\* Bladvak::try_new_with_args, then the first frame's input arrives
try_new_with_args(E) ==
  /\ pc = "new"
  /\ \E pl \in E.panel_lists, raw \in E.drops :
       LET got == get_saved_app_state(storage)
           saved_state == IF got.tag = "Some"
                          THEN <<got.val.app, Some(got.val.internal)>>
                          ELSE <<M_default, None>>
       IN /\ app' = saved_state[1]
          /\ panel_list' = pl
          /\ internal' = bladvak_internal(saved_state[2], pl)
          /\ input' = raw
  /\ error_manager' = ErrorManager_default
  /\ file_handler' = FileHandler_default
  /\ obs' = [obs0 EXCEPT !.fresh = TRUE]
  /\ hist' = hist
  /\ pc' = "top_panel"
  /\ UNCHANGED <<storage, threads>>

\* Bladvak::top_panel
top_panel(E) ==
  /\ pc = "top_panel"
  /\ \E click \in E.menu, es \in E.hook_errs, a \in E.apps \cup {app} :
       /\ file_handler' = IF click = "Open" THEN handle_file_open(file_handler)
                          ELSE file_handler
       /\ threads' = IF click = "Open" THEN spawn_thread(threads) ELSE threads
       /\ internal' = IF click = "Settings" THEN [internal EXCEPT !.settings.open = TRUE]
                      ELSE internal
       /\ error_manager' = add_errors(error_manager, es)
       /\ app' = a
       /\ obs' = [obs EXCEPT !.added = es, !.fresh = FALSE]
  /\ hist' = [hist EXCEPT !.unseen = Unseen(hist, error_manager, error_manager')]
  /\ Bounded(error_manager')
  /\ threads' <= MaxThreads
  /\ pc' = "side_panel"
  /\ UNCHANGED <<storage, panel_list, input>>

\* update, lines 397-399, and Bladvak::side_panel
side_panel(E) ==
  /\ pc = "side_panel"
  /\ LET region == side_region(app, panel_list, internal.panel_state)
     IN \E es \in E.hook_errs :
          /\ es # <<>> => region.tag = "Some" /\ region.val # <<>>
          /\ error_manager' = add_errors(error_manager, es)
          /\ obs' = [obs EXCEPT !.added = es, !.side = region]
  /\ hist' = [hist EXCEPT !.unseen = Unseen(hist, error_manager, error_manager')]
  /\ Bounded(error_manager')
  /\ pc' = "central_panel"
  /\ UNCHANGED <<storage, app, panel_list, internal, file_handler, input, threads>>

\* Bladvak::central_panel
central_panel(E) ==
  /\ pc = "central_panel"
  /\ \E closed \in E.closes, es \in E.hook_errs :
       /\ closed \subseteq windows(panel_list, internal.panel_state)
       /\ internal' = [internal EXCEPT
                         !.panel_state = central_panel_state(panel_list, @, closed)]
       /\ error_manager' = add_errors(error_manager, es)
       /\ obs' = [obs EXCEPT !.added = es, !.closed = closed]
  /\ hist' = [hist EXCEPT !.unseen = Unseen(hist, error_manager, error_manager')]
  /\ Bounded(error_manager')
  /\ pc' = "handle_files"
  /\ UNCHANGED <<storage, app, panel_list, file_handler, input, threads>>

\* routed without the host's answer
routed_ignores_answer(result, answer) ==
  IF result.tag = "Ok" THEN <<>> ELSE <<result.err>>

\* the errors update hands to add_error for a poll result and the host's answer
routed(result, answer) ==
  IF result.tag = "Ok"
  THEN IF result.val.tag = "Some" /\ answer.tag = "Err" THEN <<answer.err>> ELSE <<>>
  ELSE <<result.err>>

\* what a poll of handler fh with this frame's drop raw does with the pending drop
poll_view(fh, raw, h) ==
  LET fh1 == ingest(fh, raw)
      up == handle_file_upload(fh1)
      tag == IF up.tag = "Ok" THEN up.val.tag ELSE "Err"
      takes == tag \in {"NotSelected", "NoUpload"} /\ fh1.dropped_files # <<>>
      rest == IF raw # <<>> THEN FALSE ELSE h.rest
  IN [from |-> CASE tag = "Ready" -> "dialog"
                 [] takes /\ rest -> "extra"
                 [] takes -> "first"
                 [] OTHER -> "none",
      rest |-> IF takes THEN Len(fh1.dropped_files) > 1 ELSE rest,
      scene |-> CASE tag = "UploadedOrSelected" /\ fh1.dropped_files # <<>> -> "held"
                  [] tag = "Ready" /\ h.scene = "held" -> "dialog"
                  [] tag = "NoUpload" /\ h.scene = "dialog" /\ raw = <<>> -> "drop"
                  [] OTHER -> "none",
      failed |-> CASE tag = "Err" -> "dialog"
                   [] handle_files(fh, raw)[1].tag = "Err" -> "drop"
                   [] OTHER -> "none"]

\* update, lines 403-417: the poll and the routing of its result
update_handle_files(E) ==
  /\ pc = "handle_files"
  /\ LET res == handle_files(file_handler, input)
         result == res[1]
         some == result.tag = "Ok" /\ result.val.tag = "Some"
         view == poll_view(file_handler, input, hist)
     IN \E answer \in IF some THEN E.ingest ELSE {Ok(None)} :
          /\ file_handler' = res[2]
          /\ error_manager' = add_errors(error_manager, routed(result, answer))
          /\ obs' = [obs EXCEPT !.before = file_handler,
                                !.ret = result,
                                !.from = view.from,
                                !.handled = IF some THEN result.val ELSE None,
                                !.answer = IF some THEN Some(answer) ELSE None,
                                !.repaint = some,
                                !.added = routed(result, answer)]
          /\ hist' = [hist EXCEPT !.unseen = Unseen(hist, error_manager, error_manager'),
                                  !.rest = view.rest, !.scene = view.scene,
                                  !.failed = view.failed]
  /\ Bounded(error_manager')
  /\ pc' = "show_error_manager"
  /\ UNCHANGED <<storage, app, panel_list, internal, input, threads>>

\* Bladvak::show_error_manager
show_error_manager(E) ==
  /\ pc = "show_error_manager"
  /\ \E close \in E.err_close :
       LET res == show_error_manager_result(error_manager, close)
       IN /\ close => res[2].tag = "Some"
          /\ error_manager' = res[1]
          /\ obs' = [obs EXCEPT !.shown = res[2],
                                !.lost = hist.unseen /\ res[2].tag = "None"
                                           /\ res[1].errors = <<>>]
          /\ hist' = [hist EXCEPT !.unseen = @ /\ res[2].tag = "None"
                                                /\ res[1].errors # <<>>]
  /\ pc' = "show_setting"
  /\ UNCHANGED <<storage, app, panel_list, internal, file_handler, input, threads>>

\* Bladvak::show_setting, then the next frame's input arrives
show_setting(E) ==
  /\ pc = "show_setting"
  /\ \E u \in E.ui, es \in E.hook_errs, raw \in E.drops :
       /\ ui_on_screen(u, app, panel_list, internal)
       /\ es # <<>> => ui_settings_called(panel_list, internal)
       /\ internal' = [settings |-> show_setting_settings(internal.settings, u),
                       panel_state |-> show_setting_panel_state(app, panel_list, internal, u)]
       /\ error_manager' = add_errors(show_general_setting(error_manager, u), es)
       /\ storage' = IF u.kind = "storage" THEN Some(Serialize(app, internal)) ELSE storage
       /\ obs' = [obs0 EXCEPT !.added = es, !.shown = obs.shown,
                               !.nav = IF internal.settings.open
                                       THEN Some(nav_list(panel_list)) ELSE None,
                               !.ui = u,
                               !.coerced = coerced_panels(app, panel_list, internal)]
       /\ input' = raw
  /\ hist' = [hist EXCEPT !.unseen = Unseen(hist, error_manager, error_manager')]
  /\ Bounded(error_manager')
  /\ pc' = "top_panel"
  /\ UNCHANGED <<app, panel_list, file_handler, threads>>

\* the closure handle_file_open spawned returns, on its own thread
pick_file(E) ==
  /\ pc # "new"
  /\ file_handler.file_upload.tag = "Some"
  /\ file_handler.file_upload.val.ready.tag = "None"
  /\ \E pick \in E.picks :
       file_handler' = [file_handler EXCEPT !.file_upload = Some(Promise(Some(slow(pick))))]
  /\ threads' = threads - 1
  /\ UNCHANGED <<pc, storage, app, panel_list, internal, error_manager, input, obs, hist>>

\* the threads whose closure is still running while their Promise is gone
\* (handle_file_open replaced it)
stale(fh, t) ==
  t - (IF fh.file_upload.tag = "Some" /\ fh.file_upload.val.ready.tag = "None" THEN 1 ELSE 0)

\* the closure of a replaced Promise returns; nobody receives what it returns
pick_file_stale ==
  /\ pc # "new"
  /\ stale(file_handler, threads) > 0
  /\ threads' = threads - 1
  /\ UNCHANGED <<pc, storage, app, panel_list, internal, error_manager, file_handler,
                 input, obs, hist>>

\* eframe::App::save at shutdown; the process ends
save ==
  /\ pc = "top_panel"
  /\ storage' = Some(Serialize(app, internal))
  /\ pc' = "new"
  /\ app' = M_default
  /\ panel_list' = <<>>
  /\ internal' = no_internal
  /\ error_manager' = ErrorManager_default
  /\ file_handler' = FileHandler_default
  /\ input' = <<>>
  /\ threads' = 0
  /\ obs' = obs0
  /\ hist' = [hist0 EXCEPT !.left = /\ error_manager.errors # <<>>
                                    /\ file_handler.file_upload.tag = "Some"
                                    /\ file_handler.dropped_files # <<>>]

-----
(* The environments: hosts, panels, errors, files and user input.          *)

Log == [name |-> "Log", has_ui |-> TRUE, has_settings |-> FALSE]
Graph == [name |-> "Graph", has_ui |-> TRUE, has_settings |-> TRUE]
Stat == [name |-> "Stat", has_ui |-> FALSE, has_settings |-> TRUE]
PanelNames == {"Log", "Graph", "Stat"}

E1 == AppError_new("e1")
E2 == AppError_new("e2")
Fake == AppError_new_fake("cancelled")

Side == [is_side_panel |-> TRUE]
NoSide == [is_side_panel |-> FALSE]

\* dropped files: a and b can be read, x cannot, the last has no path
DropOrders ==
  { <<DroppedFile(Some("a")), DroppedFile(Some("b")), DroppedFile(Some("x")), DroppedFile(None)>>,
    <<DroppedFile(Some("x")), DroppedFile(Some("a")), DroppedFile(Some("b")), DroppedFile(None)>>,
    <<DroppedFile(None), DroppedFile(Some("b")), DroppedFile(Some("a")), DroppedFile(Some("x"))>> }

\* the drops of one frame: none, or up to MaxDrop files at once
Drops == {<<>>} \cup {SubSeq(o, 1, k) : o \in DropOrders, k \in 1..MaxDrop}

\* what the user does in the file dialog
Picks == {None, Some([path |-> "p", utf8 |-> TRUE]), Some([path |-> "y", utf8 |-> TRUE]),
          Some([path |-> "p", utf8 |-> FALSE])}

Quiet ==
  [panel_lists |-> {<<Log>>}, apps |-> {}, hook_errs |-> {<<>>}, menu |-> {"none"},
   closes |-> {{}}, drops |-> {<<>>}, picks |-> {}, ingest |-> {Ok(None)},
   err_close |-> {FALSE}, ui |-> {UiNone}]

\* hosts whose panel list changes from one start to the next; the user moves
\* panels between placements
EnvLayout ==
  [Quiet EXCEPT
     !.panel_lists = {<<Log, Graph>>, <<Graph, Stat>>, <<Log>>},
     !.apps = {Side, NoSide},
     !.menu = {"none", "Settings"},
     !.closes = SUBSET PanelNames,
     !.ui = {UiNone, UiCloseModal, UiNav(General), UiNav(Panel), UiStorage}
            \cup {UiPlace(n, o) : n \in PanelNames, o \in PanelOpen}]

\* hooks that record errors; the user closes the error window and uses the
\* General section
EnvErrors ==
  [Quiet EXCEPT
     !.panel_lists = {<<Graph>>},
     !.hook_errs = {<<>>, <<E1>>, <<E2>>, <<Fake>>},
     !.menu = {"none", "Settings"},
     !.err_close = BOOLEAN,
     !.ui = {UiNone, UiCloseModal, UiNav(General), UiNav(String("Graph")),
             UiResetErrors, UiErrorPanel}]

\* file dialogs and drops; the host may refuse a file
EnvFiles ==
  [Quiet EXCEPT
     !.menu = {"none", "Open"},
     !.drops = Drops,
     !.picks = Picks,
     !.ingest = {Ok(None), Err(E1), Err(Fake)},
     !.err_close = BOOLEAN]

\* sessions that end with records in the queue, a dialog open and a drop
\* pending, and start again
EnvRestart ==
  [Quiet EXCEPT
     !.panel_lists = {<<Log>>, <<Graph>>},
     !.hook_errs = {<<>>, <<E1>>},
     !.menu = {"none", "Open", "Settings"},
     !.closes = {{}, {"Log"}},
     !.drops = {<<>>, <<DroppedFile(Some("a"))>>},
     !.picks = {Some([path |-> "p", utf8 |-> TRUE])},
     !.ui = {UiNone, UiNav(Panel)}]

Frame(E) ==
  \/ try_new_with_args(E)
  \/ top_panel(E)
  \/ side_panel(E)
  \/ central_panel(E)
  \/ update_handle_files(E)
  \/ show_error_manager(E)
  \/ show_setting(E)

NextLayout == Frame(EnvLayout) \/ save
NextErrors == Frame(EnvErrors)
NextFiles == Frame(EnvFiles) \/ pick_file(EnvFiles) \/ pick_file_stale
NextRestart == Frame(EnvRestart) \/ pick_file(EnvRestart) \/ pick_file_stale \/ save

SpecLayout == Init /\ [][NextLayout]_vars
SpecErrors == Init /\ [][NextErrors]_vars
SpecFiles == Init /\ [][NextFiles]_vars
SpecRestart == Init /\ [][NextRestart]_vars

----------------------------------------------------------------------------
(* Layout reconciliation and panel windows (SpecLayout).                   *)

panel_state == internal.panel_state

AllAsWindow(pl) == [n \in Names(pl) |-> [open |-> AsWindows]]

\* C1: right after construction the layout map is the persisted one, unchanged,
\* when a persisted state exists with as many entries as the host has panels;
\* otherwise it has one entry per panel name, each AsWindow.
C1_Reconciliation ==
  (pc = "top_panel" /\ obs.fresh) =>
    IF /\ storage.tag = "Some"
       /\ Cardinality(DOMAIN storage.val.internal.panel_state) = Len(panel_list)
    THEN panel_state = storage.val.internal.panel_state
    ELSE panel_state = AllAsWindow(panel_list)

\* a persisted map with a panel in the sidebar is reused for a host with as
\* many panels
C1_Witness ==
  /\ pc = "top_panel" /\ obs.fresh
  /\ storage.tag = "Some"
  /\ Cardinality(DOMAIN storage.val.internal.panel_state) = Len(panel_list)
  /\ panel_state = storage.val.internal.panel_state
  /\ \E n \in DOMAIN panel_state : panel_state[n].open = AsSideBar

\* a persisted map of another size is dropped
C1_WitnessRebuilt ==
  /\ pc = "top_panel" /\ obs.fresh
  /\ storage.tag = "Some"
  /\ Cardinality(DOMAIN storage.val.internal.panel_state) # Len(panel_list)
  /\ \E n \in DOMAIN storage.val.internal.panel_state :
       storage.val.internal.panel_state[n].open # AsWindows

\* C2: once the shell is constructed, every registered panel name has an entry
\* in the layout map.
C2_EveryPanelHasEntry ==
  pc # "new" => Names(panel_list) \subseteq DOMAIN panel_state

\* C9: closing the window of a panel sets its placement to AsSideBar, whether
\* or not the host has a side region, and central_panel changes no other
\* placement.
C9_CloseDemotes ==
  [][pc = "central_panel" =>
       /\ DOMAIN panel_state' = DOMAIN panel_state
       /\ \A n \in DOMAIN panel_state :
            panel_state'[n].open =
              IF n \in obs'.closed THEN AsSideBar ELSE panel_state[n].open]_vars

\* a window is closed while the host has no side region, next to a panel that
\* is placed elsewhere
C9_Witness ==
  /\ pc = "handle_files"
  /\ ~app.is_side_panel
  /\ \E n \in obs.closed : panel_state[n].open = AsSideBar
  /\ \E n \in DOMAIN panel_state : n \notin obs.closed /\ panel_state[n].open = Hidden

\* the registered panel n draws a ui
has_ui(n) == \E i \in DOMAIN panel_list : panel_list[i].has_ui /\ panel_list[i].name = n

settings == internal.settings
selected_setting == internal.settings.selected_setting

\* the position among the listed panels of the panel at index i of the registry
Rank(i) == Cardinality({j \in 1..i : panel_list[j].has_settings})

\* C12: while the settings modal is open its navigation list is General, Panel
\* layout, then the registered panels with has_settings, in registry order, and
\* no other panel, whatever the placements are.
C12_NavList ==
  [][pc = "show_setting" =>
       IF settings.open
       THEN /\ obs'.nav.tag = "Some"
            /\ LET nav == obs'.nav.val
                    listed == {i \in DOMAIN panel_list : panel_list[i].has_settings}
               IN /\ Len(nav) = 2 + Cardinality(listed)
                  /\ nav[1] = General
                  /\ nav[2] = Panel
                  /\ \A i \in listed : nav[2 + Rank(i)] = String(panel_list[i].name)
       ELSE obs'.nav.tag = "None"]_vars

\* the registry Log (no settings), Graph (settings) with Log in the sidebar and
\* Graph hidden lists General, Panel layout, Graph
C12_Witness ==
  /\ pc = "top_panel"
  /\ panel_list = <<Log, Graph>>
  /\ panel_state = [Log |-> [open |-> AsSideBar], Graph |-> [open |-> Hidden]]
  /\ obs.nav = Some(<<General, Panel, String("Graph")>>)

InSidebar(q) ==
  q.has_ui /\ q.name \in DOMAIN panel_state /\ panel_state[q.name].open = AsSideBar

\* the names of the panels the side region showed
Rendered(side) == IF side.tag = "Some" THEN side.val ELSE <<>>

\* C13: in every frame the side region shows the ui of every registered panel
\* with has_ui whose placement is AsSideBar, in registry order, and of no other
\* panel.
C13_SidebarPanels ==
  pc = "central_panel" =>
    LET want == SelectSeq(panel_list, InSidebar)
    IN Rendered(obs.side) = [i \in DOMAIN want |-> want[i].name]

\* C24, as claimed: the side region is shown in a frame if and only if a panel
\* is placed AsSideBar or the host has a side region.
C24_SideRegionShown ==
  pc = "central_panel" =>
    (obs.side.tag = "Some" <=>
       \/ \E n \in DOMAIN panel_state : panel_state[n].open = AsSideBar
       \/ app.is_side_panel)

\* C24, amended: the side region is shown in a frame if and only if the host
\* has a side region and a panel is placed AsSideBar.
C24_SideRegionNeedsBoth ==
  pc = "central_panel" =>
    (obs.side.tag = "Some" <=>
       /\ \E n \in DOMAIN panel_state : panel_state[n].open = AsSideBar
       /\ app.is_side_panel)

\* a frame with a side region: the host has one and Graph is placed in it
C24_Witness ==
  /\ pc = "central_panel"
  /\ app.is_side_panel
  /\ obs.side = Some(<<"Graph">>)
  /\ panel_state["Graph"].open = AsSideBar

\* a panel is placed AsSideBar, the host has no side region, and none is shown
C24_WitnessNoSide ==
  /\ pc = "central_panel"
  /\ ~app.is_side_panel
  /\ obs.side = None
  /\ \E n \in DOMAIN panel_state : panel_state[n].open = AsSideBar

\* the Panel layout section is drawn by this show_setting step
PanelSection == pc = "show_setting" /\ settings.open /\ selected_setting = Panel

\* the placement the user selects for panel n in this step, else d
Selected(u, n, d) == IF u.kind = "place" /\ u.arg.name = n THEN u.arg.open ELSE d

\* C14: drawing the Panel layout section while the host has no side region
\* offers no AsSideBar and takes every has_ui panel out of AsSideBar, to Hidden
\* (or to what the user selects for it in that step); while the host has a side
\* region it changes no placement but the one the user selects.
C14_PanelSection ==
  [][PanelSection =>
       /\ DOMAIN panel_state' = DOMAIN panel_state
       /\ IF app.is_side_panel
          THEN \A n \in DOMAIN panel_state :
                 panel_state'[n].open = Selected(obs'.ui, n, panel_state[n].open)
          ELSE /\ ~(obs'.ui.kind = "place" /\ obs'.ui.arg.open = AsSideBar)
               /\ \A n \in DOMAIN panel_state :
                    panel_state'[n].open =
                      IF has_ui(n) /\ panel_state[n].open = AsSideBar
                      THEN Selected(obs'.ui, n, Hidden)
                      ELSE Selected(obs'.ui, n, panel_state[n].open)]_vars

\* a panel left in the sidebar is hidden by the section of a host without a
\* side region
C14_Witness ==
  /\ pc = "top_panel"
  /\ ~app.is_side_panel
  /\ obs.ui = UiNone
  /\ \E n \in obs.coerced : panel_state[n].open = Hidden

\* C15: closing the settings modal leaves the selected section, nothing changes
\* it while the modal is closed, and reopening the modal leaves it too.
C15_CloseKeepsSelection ==
  [][/\ (settings.open /\ ~settings.open' /\ pc' # "new") =>
          selected_setting' = selected_setting
     /\ (~settings.open /\ pc # "new" /\ pc' # "new") =>
          selected_setting' = selected_setting]_vars

\* the modal closed in the last frame on the Panel layout section is open again
\* on that section
C15_Witness ==
  /\ pc = "side_panel"
  /\ obs.ui = UiCloseModal
  /\ settings.open
  /\ selected_setting = Panel

\* C16, as claimed: after a shutdown and a startup the selected section is
\* General.
C16_SelectionNotPersisted ==
  (pc = "top_panel" /\ obs.fresh) => selected_setting = General

\* C16, amended: the selected section is saved with the settings; after a
\* startup it is the section selected at shutdown when the persisted layout has
\* as many entries as the host has panels, and General otherwise.
C16_SelectionPersisted ==
  (pc = "top_panel" /\ obs.fresh) =>
    selected_setting =
      IF /\ storage.tag = "Some"
         /\ Cardinality(DOMAIN storage.val.internal.panel_state) = Len(panel_list)
      THEN storage.val.internal.settings.selected_setting
      ELSE General

\* a startup on the Panel layout section
C16_Witness ==
  /\ pc = "top_panel" /\ obs.fresh
  /\ storage.tag = "Some"
  /\ storage.val.internal.settings.selected_setting = Panel
  /\ selected_setting = Panel

\* C28: a startup on a saved state keeps the host's saved state; it keeps the
\* saved settings when the saved layout has as many entries as the host has
\* panels, and has the default settings and an all-AsWindow layout otherwise.
C28_SettingsFollowLayout ==
  (pc = "top_panel" /\ obs.fresh /\ storage.tag = "Some") =>
    /\ app = storage.val.app
    /\ IF Cardinality(DOMAIN storage.val.internal.panel_state) = Len(panel_list)
       THEN settings = storage.val.internal.settings
       ELSE /\ settings = Settings_default
            /\ ~settings.open /\ ~settings.show_inspection
            /\ selected_setting = General
            /\ panel_state = AllAsWindow(panel_list)

\* a state saved with the modal open on the Panel layout section, by a host
\* without side region, is read by a host with another number of panels
C28_Witness ==
  /\ pc = "top_panel" /\ obs.fresh
  /\ storage.tag = "Some"
  /\ Cardinality(DOMAIN storage.val.internal.panel_state) # Len(panel_list)
  /\ storage.val.internal.settings.open
  /\ storage.val.internal.settings.selected_setting = Panel
  /\ ~storage.val.app.is_side_panel
  /\ ~app.is_side_panel
  /\ settings = Settings_default

\* C29: within a session the layout map keeps its keys, and a placement changes
\* only to what the user selects for that panel in the Panel layout section,
\* from AsWindows to AsSideBar for a window closed in central_panel, or from
\* AsSideBar to Hidden in the Panel layout section of a host without side region.
C29_KeysFixed ==
  [][(pc # "new" /\ pc' # "new") =>
       /\ DOMAIN panel_state' = DOMAIN panel_state
       /\ \A n \in DOMAIN panel_state :
            panel_state'[n].open # panel_state[n].open =>
              \/ /\ PanelSection
                 /\ obs'.ui = UiPlace(n, panel_state'[n].open)
              \/ /\ pc = "central_panel"
                 /\ n \in obs'.closed
                 /\ panel_state[n].open = AsWindows /\ panel_state'[n].open = AsSideBar
              \/ /\ PanelSection /\ ~app.is_side_panel
                 /\ panel_state[n].open = AsSideBar /\ panel_state'[n].open = Hidden]_vars

\* in one step of the Panel layout section a panel was taken out of the sidebar
\* and the user placed another panel
C29_Witness ==
  /\ pc = "top_panel"
  /\ obs.ui.kind = "place"
  /\ \E n \in obs.coerced : n # obs.ui.arg.name /\ panel_state[n].open = Hidden
  /\ panel_state[obs.ui.arg.name].open = AsWindows

----------------------------------------------------------------------------
(* The error queue and its window (SpecErrors).                            *)

errors == error_manager.errors
is_open == error_manager.is_open
was_open == error_manager.was_open

NotFake(e) == ~is_fake(e)

\* C3: the error-rendering step that finds the window closed and records in
\* the queue that it has never listed opens the window, no other step of a
\* frame opens it, and no step but a dismissal closes it: one closed-to-open
\* transition per batch of recorded errors.
C3_AutoOpenOnce ==
  [][/\ (pc = "show_error_manager" /\ ~is_open /\ hist.unseen) => obs'.shown.tag = "Some"
     /\ (~is_open /\ is_open') => pc \in {"show_error_manager", "show_setting"}
     /\ (is_open /\ ~is_open') => pc \in {"show_error_manager", "show_setting"}]_vars

\* C4, as claimed: after every transition of is_open from true to false the
\* queue is empty.
C4_DismissClears ==
  [][(is_open /\ ~is_open') => errors' = <<>>]_vars

\* What the code does on a dismissal: a transition of is_open from true to
\* false made by the error window empties the queue in the same step; one made
\* in the General section either empties it (reset) or leaves the records
\* (untick), and then the window stays closed until the next error-rendering
\* step, which empties the queue.
C4_DismissClearsAtRender ==
  [][/\ (is_open /\ ~is_open' /\ pc # "show_setting") => errors' = <<>>
     /\ (is_open /\ ~is_open' /\ pc = "show_setting") =>
          errors' = <<>> \/ (errors' = errors /\ was_open')
     /\ (~is_open /\ was_open) =>
          IF pc = "show_error_manager"
          THEN ~is_open' /\ errors' = <<>>
          ELSE ~is_open' /\ was_open']_vars

\* the window was unticked in the General section and the records are still there
C4_Witness ==
  pc = "top_panel" /\ ~is_open /\ was_open /\ errors # <<>>

\* C5: a step's add_error calls append its non-transient errors, in order, and
\* nothing else; an error window that stays open lists the queue as it is and
\* leaves it as it is.
C5_RecordAndDisplay ==
  [][/\ pc \in {"top_panel", "side_panel", "central_panel", "handle_files"} =>
          errors' = errors \o SelectSeq(obs'.added, NotFake)
     /\ pc = "show_setting" =>
          \/ errors' = errors \o SelectSeq(obs'.added, NotFake)
          \/ errors' = <<>> /\ obs'.added = <<>>
     /\ (pc = "show_error_manager" /\ is_open') =>
          obs'.shown = Some(errors) /\ errors' = errors]_vars

\* a transient error is recorded while the open window lists two records, the
\* later message first in the alphabet
C5_Witness ==
  /\ pc = "top_panel"
  /\ obs.added = <<Fake>>
  /\ obs.shown = Some(<<E2, E1>>)
  /\ errors = <<E2, E1>>
  /\ is_open

\* C25: no record leaves the queue without having been listed by the error
\* window, unless the queue is reset in the General section.
C25_ShownBeforeRemoved == ~obs.lost

\* C30: right after the error-window step was_open equals is_open, and a closed
\* window goes with an empty queue.
C30_AfterErrorStep ==
  pc = "show_setting" => (was_open = is_open /\ (~is_open => errors = <<>>))

\* the window listed two records and was closed in this step
C30_Witness ==
  /\ pc = "show_setting"
  /\ obs.shown.tag = "Some"
  /\ Len(obs.shown.val) = 2
  /\ ~is_open /\ ~was_open
  /\ errors = <<>>

\* C17: the steps of a frame run in the order top region, side region, central
\* region, poll and routing, settings overlay, error window.
C17_FrameOrder ==
  [][/\ pc = "top_panel" => pc' = "side_panel"
     /\ pc = "side_panel" => pc' = "central_panel"
     /\ pc = "central_panel" => pc' = "handle_files"
     /\ pc = "handle_files" => pc' = "show_setting"
     /\ pc = "show_setting" => pc' = "show_error_manager"
     /\ pc = "show_error_manager" => pc' = "top_panel"]_vars

----------------------------------------------------------------------------
(* Shutdown and startup (SpecRestart).                                     *)

\* C18: what is saved is the host's state, the settings and the layout map, and
\* nothing else; a startup that finds as many layout entries as the host has
\* panels has the settings and the layout map exactly as saved; every startup
\* has an empty, closed error queue, no dialog request and no pending drop, and
\* the registry the host returns.
C18_RoundTrip ==
  /\ storage.tag = "Some" => DOMAIN storage.val = {"app", "internal"}
  /\ (pc = "top_panel" /\ obs.fresh) =>
       /\ error_manager = ErrorManager_default
       /\ file_handler = FileHandler_default
       /\ panel_list \in EnvRestart.panel_lists
       /\ (/\ storage.tag = "Some"
           /\ Cardinality(DOMAIN storage.val.internal.panel_state) = Len(panel_list)) =>
            /\ internal.settings = storage.val.internal.settings
            /\ internal.panel_state = storage.val.internal.panel_state

\* a session that ended with records, a dialog request and a pending drop, with
\* the modal open and a panel in the sidebar, has started again
C18_Witness ==
  /\ pc = "top_panel" /\ obs.fresh
  /\ hist.left
  /\ storage.tag = "Some"
  /\ internal = storage.val.internal
  /\ settings.open /\ selected_setting = Panel
  /\ \E n \in DOMAIN panel_state : panel_state[n].open = AsSideBar

----------------------------------------------------------------------------
(* The file pipeline (SpecFiles).                                          *)

dropped_files == file_handler.dropped_files

\* the pending list of a poll once this frame's drop is taken in
Pending(fh, raw) == IF raw # <<>> THEN raw ELSE fh.dropped_files

\* the file of a dialog request that has resolved to Ready, else None
ReadyFile(fh) ==
  IF /\ fh.file_upload.tag = "Some"
     /\ fh.file_upload.val.ready.tag = "Some"
     /\ fh.file_upload.val.ready.val.tag = "Ok"
     /\ fh.file_upload.val.ready.val.val.tag = "Ready"
  THEN Some(fh.file_upload.val.ready.val.val.file)
  ELSE None

Polled == pc = "show_error_manager"

\* this step is the poll of update (a dialog thread may return at any pc)
PollStep == pc = "handle_files" /\ pc' = "show_error_manager"

\* C6: a poll with no dialog request, no pending drop and no new drop returns
\* None and leaves the file handler as it was.
C6_IdlePoll ==
  (Polled /\ obs.before = FileHandler_default /\ input = <<>>) =>
    obs.ret = Ok(None) /\ file_handler = FileHandler_default

\* an idle poll after the error window has listed a failed read
C6_Witness ==
  /\ Polled /\ obs.before = FileHandler_default /\ input = <<>>
  /\ obs.ret = Ok(None)
  /\ errors # <<>>

\* C7: a poll that finds the dialog Ready and a drop pending returns the
\* dialog's file and leaves the pending list; no other step touches the list,
\* so the next frame's poll finds it.
C7_DialogPriority ==
  [][/\ (PollStep /\ ReadyFile(file_handler).tag = "Some"
           /\ Pending(file_handler, input) # <<>>) =>
          /\ obs'.ret = Ok(ReadyFile(file_handler))
          /\ dropped_files' = Pending(file_handler, input)
     /\ (~PollStep /\ pc' # "new") => dropped_files' = dropped_files]_vars

\* the dialog's file is returned over a pending drop
C7_Witness ==
  /\ Polled
  /\ ReadyFile(obs.before).tag = "Some"
  /\ obs.ret = Ok(ReadyFile(obs.before))
  /\ Pending(obs.before, input) # <<>>
  /\ dropped_files = Pending(obs.before, input)

\* C8: while the dialog is unresolved a poll returns None and keeps the drop;
\* the poll that then finds it Ready returns the dialog's file and keeps the
\* drop; the poll after that, with no new drop and no new request, returns the
\* first pending file (when that file has a path that can be read).
C8_DropBehindDialog ==
  Polled =>
    /\ hist.scene = "held" =>
         obs.ret = Ok(None) /\ dropped_files = Pending(obs.before, input)
    /\ hist.scene = "dialog" =>
         /\ obs.ret = Ok(ReadyFile(obs.before))
         /\ dropped_files = Pending(obs.before, input)
         /\ dropped_files # <<>>
    /\ hist.scene = "drop" =>
         /\ obs.before.dropped_files # <<>>
         /\ LET d == Head(obs.before.dropped_files)
            IN (d.path.tag = "Some" /\ d.path.val \in DOMAIN Disk) =>
                 obs.ret = Ok(Some(File(d.path.val)))
         /\ dropped_files = Tail(obs.before.dropped_files)

\* the drop held behind the dialog is delivered by the poll after the dialog's
C8_Witness ==
  /\ Polled
  /\ hist.scene = "drop"
  /\ obs.ret = Ok(Some(File("a")))

\* C10: no poll returns a file of a drop other than the drop's first file.
C10_OnlyFirstDelivered ==
  Polled => ~(obs.from = "extra" /\ obs.ret.tag = "Ok" /\ obs.ret.val.tag = "Some")

\* what the request in the slot of fh has resolved to: "NoUpload" (no request),
\* "UploadedOrSelected" (not resolved), "NotSelected", "Ready" or "Err"
Slot(fh) ==
  CASE fh.file_upload.tag = "None" -> "NoUpload"
    [] fh.file_upload.val.ready.tag = "None" -> "UploadedOrSelected"
    [] fh.file_upload.val.ready.val.tag = "Err" -> "Err"
    [] OTHER -> fh.file_upload.val.ready.val.val.tag

\* the drop was looked at: its first file left the pending list
Consumed == dropped_files' # Pending(file_handler, input)

\* C19, as claimed: a poll that starts with the dialog slot occupied, whatever
\* the request has resolved to, consumes and returns no dropped file.
C19_DropOnlyWithoutDialog ==
  [][(PollStep /\ Slot(file_handler) # "NoUpload") =>
       ~Consumed /\ obs'.from \in {"dialog", "none"}]_vars

\* C19, amended: a poll that starts with a request that is unresolved, Ready or
\* failed consumes and returns no dropped file; a poll that starts with a
\* cancelled request empties the slot and goes on to the pending drop, as a
\* poll with no request does: it takes the first pending file.
C19_DropUnlessCancelled ==
  [][PollStep =>
       /\ Slot(file_handler) \in {"UploadedOrSelected", "Ready", "Err"} =>
            ~Consumed /\ obs'.from \in {"dialog", "none"}
       /\ (/\ Slot(file_handler) \in {"NotSelected", "NoUpload"}
           /\ Pending(file_handler, input) # <<>>) =>
            /\ file_handler' = [dropped_files |-> Tail(Pending(file_handler, input)),
                                file_upload |-> None]
            /\ obs'.from \in {"first", "extra"}]_vars

\* a poll that found the dialog cancelled has returned the dropped file
C19_Witness ==
  /\ Polled
  /\ Slot(obs.before) = "NotSelected"
  /\ obs.from = "first"
  /\ obs.ret = Ok(Some(File("a")))
  /\ file_handler = FileHandler_default

\* C20: a poll that finds the request resolved (Ready, cancelled or failed)
\* leaves the slot empty, and a poll returns a dialog's file only when it found
\* the request Ready: one request is returned by at most one poll.
C20_SlotCleared ==
  [][PollStep =>
       /\ Slot(file_handler) \in {"Ready", "NotSelected", "Err"} =>
            file_handler'.file_upload = None
       /\ obs'.from = "dialog" =>
            /\ Slot(file_handler) = "Ready"
            /\ obs'.handled = ReadyFile(file_handler)
            /\ ReadyFile(file_handler') = None]_vars

\* a poll has returned the error of a failed read and emptied the slot
C20_Witness ==
  /\ Polled
  /\ Slot(obs.before) = "Err"
  /\ obs.ret.tag = "Err"
  /\ file_handler.file_upload = None

\* C21: the poll that finds a failed read returns its error, update appends
\* exactly one record for it, and the failed request or dropped file leaves the
\* pipeline; the next poll, with no new drop and no request (and, after a failed
\* dialog, no drop that was waiting behind it), returns None and adds no record.
C21_FailedReadOnce ==
  [][PollStep =>
       /\ obs'.ret.tag = "Err" =>
            /\ errors' = errors \o <<obs'.ret.err>>
            /\ IF Slot(file_handler) = "Err"
               THEN /\ file_handler'.file_upload = None
                    /\ dropped_files' = Pending(file_handler, input)
               ELSE dropped_files' = Tail(Pending(file_handler, input))
       /\ (/\ input = <<>>
           /\ Slot(file_handler) = "NoUpload"
           /\ \/ hist.failed = "drop"
              \/ hist.failed = "dialog" /\ dropped_files = <<>>) =>
            obs'.ret = Ok(None) /\ errors' = errors]_vars

\* C22: the poll that finds the dialog cancelled empties the slot, returns no
\* dialog file and leaves the window's flags; with no drop pending it returns
\* None and adds no record, and with a drop pending it does what a poll with no
\* request does.
C22_CancelIsSilent ==
  [][(PollStep /\ Slot(file_handler) = "NotSelected") =>
       /\ file_handler'.file_upload = None
       /\ obs'.from # "dialog"
       /\ is_open' = is_open /\ was_open' = was_open
       /\ obs'.ret = handle_files([file_handler EXCEPT !.file_upload = None], input)[1]
       /\ Pending(file_handler, input) = <<>> =>
            /\ obs'.ret = Ok(None)
            /\ obs'.handled = None
            /\ errors' = errors]_vars

\* a cancelled dialog has been polled: nothing returned, nothing recorded, the
\* error window closed
C22_Witness ==
  /\ pc = "show_setting"
  /\ Slot(obs.before) = "NotSelected"
  /\ obs.ret = Ok(None)
  /\ file_handler = FileHandler_default
  /\ errors = <<>>
  /\ ~is_open

\* C23: a poll that returns a file gives it to the host's handle_file, once, in
\* the same step, and requests a repaint; a non-transient error of the host is
\* appended to the queue and a transient one is not; a poll that returns no file
\* does not call the host.
C23_FileToHost ==
  [][PollStep =>
       IF obs'.ret.tag = "Ok" /\ obs'.ret.val.tag = "Some"
       THEN /\ obs'.handled = obs'.ret.val
            /\ obs'.answer.tag = "Some"
            /\ obs'.repaint
            /\ errors' = IF obs'.answer.val.tag = "Err" /\ NotFake(obs'.answer.val.err)
                         THEN Append(errors, obs'.answer.val.err)
                         ELSE errors
       ELSE /\ obs'.handled = None
            /\ obs'.answer = None
            /\ ~obs'.repaint]_vars

\* the host has refused a dropped file and its error is in the queue
C23_Witness ==
  /\ Polled
  /\ obs.ret = Ok(Some(File("a")))
  /\ obs.handled = Some(File("a"))
  /\ obs.answer = Some(Err(E1))
  /\ obs.repaint
  /\ errors = <<E1>>

\* C26: File > Open puts a new, unresolved request in the slot whatever the slot
\* held, and the threads started before keep running; when a thread returns,
\* either it is the one of the request in the slot, which resolves, or it is one
\* of a replaced request and nothing but the thread count changes: its outcome
\* reaches no poll, no host hook and no queue.
C26_ReplacedRequestLost ==
  [][/\ (pc = "top_panel" /\ threads' = threads + 1) =>
          /\ file_handler'.file_upload = Some(Promise(None))
          /\ dropped_files' = dropped_files
          /\ stale(file_handler', threads') = threads
     /\ (threads' < threads /\ pc' # "new") =>
          /\ threads' = threads - 1
          /\ error_manager' = error_manager
          /\ dropped_files' = dropped_files
          /\ obs' = obs
          /\ \/ /\ Slot(file_handler) = "UploadedOrSelected"
                /\ Slot(file_handler') \in {"Ready", "NotSelected", "Err"}
             \/ /\ stale(file_handler, threads) > 0
                /\ file_handler' = file_handler]_vars

\* the file of the latest request has been delivered while the thread of a
\* replaced request is still running
C26_Witness ==
  /\ Polled
  /\ obs.from = "dialog"
  /\ obs.handled.tag = "Some"
  /\ file_handler.file_upload = None
  /\ threads = 1

\* C27: a poll works on this frame's drop when there is one, whatever was
\* pending, and on the pending list otherwise: the list it leaves is that list,
\* less its first file when the poll took one, and a file it returns from a drop
\* is the first of that list.
C27_DropReplaces ==
  [][PollStep =>
       LET list == IF input # <<>> THEN input ELSE dropped_files
       IN /\ dropped_files' = IF obs'.from \in {"first", "extra"} THEN Tail(list) ELSE list
          /\ (obs'.from \in {"first", "extra"} /\ obs'.handled.tag = "Some") =>
               obs'.handled.val = File(Head(list).path.val)]_vars

\* a drop that waited behind an unresolved dialog has been replaced by a new one
C27_Witness ==
  /\ Polled
  /\ Slot(obs.before) = "UploadedOrSelected"
  /\ obs.before.dropped_files # <<>>
  /\ input # <<>>
  /\ Head(input) # Head(obs.before.dropped_files)
  /\ dropped_files = input

\* the dialog requests in flight: those whose dialog is still open, and the one
\* that has resolved and waits in the slot for the poll
in_flight ==
  threads + (IF /\ file_handler.file_upload.tag = "Some"
                /\ file_handler.file_upload.val.ready.tag = "Some" THEN 1 ELSE 0)

\* C11: at most one dialog request is in flight at any time.
C11_OneInFlight == in_flight <= 1

====
